---- MODULE Spec2Model ----
(***************************************************************************)
(* Scheduling / publishing pipeline of server/app/services/                *)
(* scheduler_service.py together with the draft endpoints of               *)
(* server/app/api/v1/content.py and the integration endpoints of           *)
(* server/app/api/v1/integrations.py.                                      *)
(*                                                                         *)
(* Time is counted in minutes since a Monday 00:00.  The database is the   *)
(* shared state; every handler opens its own session, so a handler that    *)
(* awaits the platform between its query and its commit is two steps.      *)
(***************************************************************************)
EXTENDS Integers, Sequences, FiniteSets, TLC

(* ------------------------------- bounds -------------------------------- *)
NumDrafts == 1
MaxTasks == 2
MaxPosts == 2
MaxWorkers == 2
Horizon == 1
NumListed == 3
MaxSnapshots == 2
NumReported == 2

(* ------------------------------ constants ------------------------------ *)
None == -1
MinutesPerDay == 1440
MetricsCountdown == 60
BreakingDelay == 5
StartTime == 2760
ScoreUnit == 100

Users == {"alice", "bob"}
Owners == {"alice"}
Callers == Owners
Nobody == "nobody"
DraftIds == 1..NumDrafts
Platforms == {"twitter", "linkedin"}

BreakingWords == {"breaking", "urgent", "just announced", "happening now"}
MotivationalWords == {"motivation", "inspire", "achieve", "success", "goal"}
EducationalWords == {"learn", "tutorial", "guide", "how to", "tip"}

\* A content is modelled by the set of keywords that occur in it.
Contents == {{}}

DraftColumns == {"id", "user_id", "content", "platform", "status", "variants",
                 "scheduled_for", "best_time_score", "moderation_status",
                 "moderation_flags", "themes", "prompt_used", "created_at",
                 "updated_at"}

VARIABLES now, drafts, connected, tasks, posts, inflight, tweets, snapshots, last
vars == <<now, drafts, connected, tasks, posts, inflight, tweets, snapshots,
         last>>

(* ------------------------------ the advisor ---------------------------- *)
Weekday(t) == (t \div MinutesPerDay) % 7
DayStart(t) == (t \div MinutesPerDay) * MinutesPerDay

HourOf(t) == (t % MinutesPerDay) \div 60

\* mutant: the slot depends on what was answered before
MorningHour_Drift(platform, is_weekend) == IF last.op = "none" THEN 9 ELSE 10

MorningHour(platform, is_weekend) ==
  IF platform = "linkedin"
  THEN (IF is_weekend THEN 9 ELSE 8)
  ELSE (IF is_weekend THEN 10 ELSE 9)

\* mutant: breaking news is never recognised
_analyze_content_timing_factors_NoBreaking(content) ==
  [is_breaking_news |-> FALSE,
   is_motivational |-> content \cap MotivationalWords # {},
   is_educational |-> content \cap EducationalWords # {}]

_analyze_content_timing_factors(content) ==
  [is_breaking_news |-> content \cap BreakingWords # {},
   is_motivational |-> content \cap MotivationalWords # {},
   is_educational |-> content \cap EducationalWords # {}]

RECURSIVE SkipWeekend(_)
SkipWeekend(t) == IF Weekday(t) >= 5 THEN SkipWeekend(t + MinutesPerDay) ELSE t

_calculate_optimal_time(platform, content, t) ==
  LET base_time == DayStart(t) + 9 * 60
      is_weekend == Weekday(base_time) >= 5
      f == _analyze_content_timing_factors(content)
      optimal_time ==
        IF f.is_breaking_news THEN t + BreakingDelay
        ELSE IF f.is_motivational THEN DayStart(t) + 8 * 60 + 30
        ELSE IF f.is_educational THEN DayStart(t) + 14 * 60
        ELSE DayStart(t) + MorningHour(platform, is_weekend) * 60 + 30
  IN IF optimal_time <= t
     THEN (IF is_weekend THEN optimal_time + MinutesPerDay
           ELSE SkipWeekend(optimal_time + MinutesPerDay))
     ELSE optimal_time

Min(a, b) == IF a <= b THEN a ELSE b

\* mutant: the weekend factor raises the score
WeekendPenalty_Bonus(base_score) == base_score * 3

\* base_score *= 0.7, in whole points
WeekendPenalty(base_score) == (base_score * 7) \div 10

_calculate_timing_score(scheduled_time, platform) ==
  LET hour == HourOf(scheduled_time)
      is_weekend == Weekday(scheduled_time) >= 5
      In(lo, hi) == lo <= hour /\ hour <= hi
      base_score ==
        IF platform = "twitter"
        THEN (IF In(8, 10) \/ In(15, 17) \/ In(19, 21) THEN 90
              ELSE IF In(11, 14) \/ In(18, 19) THEN 75
              ELSE 50)
        ELSE (IF ~is_weekend /\ (In(8, 10) \/ In(12, 14) \/ In(17, 19)) THEN 90
              ELSE IF ~is_weekend /\ (In(10, 12) \/ In(14, 17)) THEN 75
              ELSE 40)
      penalised == IF is_weekend /\ platform = "linkedin"
                   THEN WeekendPenalty(base_score)
                   ELSE base_score
  IN Min(100, penalised)

(* ------------------------------ the scheduler -------------------------- *)
\* mutant: the query does not filter on the owner
OwnedDraft_AnyUser(ds, draft_id, user_id) == draft_id \in DOMAIN ds

OwnedDraft(ds, draft_id, user_id) ==
  draft_id \in DOMAIN ds /\ ds[draft_id].user_id = user_id

HasIntegration(conn, user_id, platform) == <<user_id, platform>> \in conn

PublishTask(draft_id, eta) ==
  [name |-> "schedule_publish_content", arg |-> draft_id, eta |-> eta]

schedule_content(ds, ts, conn, t, draft_id, user_id, scheduled_time, auto_optimize, broker_ok) ==
  IF ~OwnedDraft(ds, draft_id, user_id)
  THEN [drafts |-> ds, tasks |-> ts, result |-> "Draft not found"]
  ELSE IF ~HasIntegration(conn, user_id, ds[draft_id].platform)
  THEN [drafts |-> ds, tasks |-> ts, result |-> "No connected account"]
  ELSE
    LET st == IF scheduled_time = None \/ auto_optimize
              THEN _calculate_optimal_time(ds[draft_id].platform,
                                           ds[draft_id].content, t)
              ELSE scheduled_time
    IN IF st <= t
       THEN [drafts |-> ds, tasks |-> ts,
             result |-> "Cannot schedule content in the past"]
       ELSE
         LET ds2 == [ds EXCEPT ![draft_id].status = "scheduled",
                               ![draft_id].scheduled_for = st]
         IN IF broker_ok
            THEN [drafts |-> ds2,
                  tasks |-> Append(ts, PublishTask(draft_id, st)),
                  result |-> "success"]
            ELSE [drafts |-> ds2, tasks |-> ts, result |-> "OperationalError"]

\* mutant: the attribute read never raises
DraftHasAttr_Any(name) == TRUE

\* Draft has no column external_id: reading the attribute of a freshly
\* loaded row raises AttributeError, caught by the handler's except clause.
DraftHasAttr(name) == name \in DraftColumns

cancel_scheduled_content(ds, draft_id, user_id) ==
  IF ~(OwnedDraft(ds, draft_id, user_id) /\ ds[draft_id].status = "scheduled")
  THEN [drafts |-> ds, result |-> "Scheduled draft not found"]
  ELSE IF ~DraftHasAttr("external_id")
  THEN [drafts |-> ds, result |-> "AttributeError"]
  ELSE [drafts |-> [ds EXCEPT ![draft_id].status = "pending",
                              ![draft_id].scheduled_for = None],
        result |-> "success"]

\* mutant: a returned error is never noticed
HasError_Never(r) == FALSE

\* not result.get("success")
HasError(r) == r.result # "success"

reschedule_content(ds, ts, conn, t, draft_id, user_id, new_time, broker_ok) ==
  LET c == cancel_scheduled_content(ds, draft_id, user_id)
  IN IF HasError(c)
     THEN [drafts |-> c.drafts, tasks |-> ts, result |-> c.result]
     ELSE schedule_content(c.drafts, ts, conn, t, draft_id, user_id, new_time,
                           FALSE, broker_ok)

\* what the last scheduler or publisher call returned to its caller
Done(op, draft_id, user_id, result) ==
  [op |-> op, draft_id |-> draft_id, user_id |-> user_id, result |-> result]

NoCall == Done("none", 0, Nobody, "none")

\* the explicit times a caller asks for: none, just past, now, just ahead
ScheduleTimes == {None, now - 1, now, now + 1}

(* ------------------------------- actions ------------------------------- *)
Init ==
  /\ now = StartTime
  /\ drafts = <<>>
  /\ connected = {}
  /\ tasks = <<>>
  /\ posts = <<>>
  /\ inflight = [d \in DraftIds |-> 0]
  /\ tweets = [d \in DraftIds |-> 0]
  /\ snapshots = <<>>
  /\ last = NoCall

\* POST /content/generate: one row per generated text, all committed at once
NewDraft(u, platform, content) ==
  [user_id |-> u, platform |-> platform, content |-> content,
   status |-> "pending", scheduled_for |-> None]

GenerateDrafts(u, platform, cs) ==
  /\ Len(drafts) + Len(cs) <= NumDrafts
  /\ drafts' = drafts \o [i \in 1..Len(cs) |-> NewDraft(u, platform, cs[i])]
  /\ last' = NoCall
  /\ UNCHANGED <<now, connected, tasks, posts, inflight, tweets, snapshots>>

Schedule(d, u, t, auto, broker_ok) ==
  LET r == schedule_content(drafts, tasks, connected, now, d, u, t, auto, broker_ok)
  IN /\ Len(r.tasks) <= MaxTasks
     /\ drafts' = r.drafts
     /\ tasks' = r.tasks
     /\ last' = Done("schedule_content", d, u, r.result)
     /\ UNCHANGED <<now, connected, posts, inflight, tweets, snapshots>>

Cancel(d, u) ==
  LET r == cancel_scheduled_content(drafts, d, u)
  IN /\ drafts' = r.drafts
     /\ last' = Done("cancel_scheduled_content", d, u, r.result)
     /\ UNCHANGED <<now, connected, tasks, posts, inflight, tweets, snapshots>>

Reschedule(d, u, t, broker_ok) ==
  LET r == reschedule_content(drafts, tasks, connected, now, d, u, t, broker_ok)
  IN /\ Len(r.tasks) <= MaxTasks
     /\ drafts' = r.drafts
     /\ tasks' = r.tasks
     /\ last' = Done("reschedule_content", d, u, r.result)
     /\ UNCHANGED <<now, connected, posts, inflight, tweets, snapshots>>

\* POST /content/drafts/{id}/approve
approve_draft(ds, draft_id, user_id, schedule_time) ==
  IF ~OwnedDraft(ds, draft_id, user_id)
  THEN [drafts |-> ds, result |-> "Draft not found"]
  ELSE IF schedule_time # None
  THEN [drafts |-> [ds EXCEPT ![draft_id].status = "scheduled",
                              ![draft_id].scheduled_for = schedule_time],
        result |-> "success"]
  ELSE [drafts |-> [ds EXCEPT ![draft_id].status = "approved"],
        result |-> "success"]

Approve(d, u, t) ==
  LET r == approve_draft(drafts, d, u, t)
  IN /\ drafts' = r.drafts
     /\ last' = NoCall
     /\ UNCHANGED <<now, connected, tasks, posts, inflight, tweets, snapshots>>

\* POST /content/drafts/{id}/reject
reject_draft(ds, draft_id, user_id) ==
  IF ~OwnedDraft(ds, draft_id, user_id)
  THEN [drafts |-> ds, result |-> "Draft not found"]
  ELSE [drafts |-> [ds EXCEPT ![draft_id].status = "rejected"],
        result |-> "success"]

Reject(d, u) ==
  LET r == reject_draft(drafts, d, u)
  IN /\ drafts' = r.drafts
     /\ last' = NoCall
     /\ UNCHANGED <<now, connected, tasks, posts, inflight, tweets, snapshots>>

\* POST /integrations/oauth/complete and DELETE /integrations/{id}
Connect(u, platform) ==
  /\ <<u, platform>> \notin connected
  /\ connected' = connected \cup {<<u, platform>>}
  /\ last' = NoCall
  /\ UNCHANGED <<now, drafts, tasks, posts, inflight, tweets, snapshots>>

Disconnect(u, platform) ==
  /\ <<u, platform>> \in connected
  /\ connected' = connected \ {<<u, platform>>}
  /\ last' = NoCall
  /\ UNCHANGED <<now, drafts, tasks, posts, inflight, tweets, snapshots>>

(* ------------------------------ the publisher -------------------------- *)
\* mutant: the status filter only excludes rejected drafts
PublishableStatus_NotRejected(s) == s # "rejected"

PublishableStatus(s) == s = "scheduled"

\* publish_content up to its first await: the draft and integration queries
publish_lookup(ds, conn, draft_id) ==
  IF ~(draft_id \in DOMAIN ds /\ PublishableStatus(ds[draft_id].status))
  THEN "Scheduled draft not found"
  ELSE IF ~HasIntegration(conn, ds[draft_id].user_id, ds[draft_id].platform)
  THEN "No connected integration"
  ELSE "in_progress"

RECURSIVE SumOver(_, _)
SumOver(f, S) ==
  IF S = {} THEN 0
  ELSE LET x == CHOOSE y \in S : TRUE IN f[x] + SumOver(f, S \ {x})

Running == SumOver(inflight, DraftIds)

PublishBegin(op, d, u) ==
  LET r == publish_lookup(drafts, connected, d)
  IN /\ r = "in_progress" => Running < MaxWorkers
     /\ last' = Done(op, d, u, r)
     /\ inflight' = IF r = "in_progress"
                    THEN [inflight EXCEPT ![d] = @ + 1]
                    ELSE inflight

\* POST /content/drafts/{id}/publish
PublishNow(d, u) ==
  /\ PublishBegin("publish_content_immediately", d, u)
  /\ UNCHANGED <<now, drafts, connected, tasks, posts, tweets, snapshots>>

\* the broker hands a due schedule_publish_content task to a worker; a task
\* is delivered at least once, so a delivered task may be delivered again
Due(task, t) == task.eta <= t

DeliverPublish(i) ==
  /\ i \in DOMAIN tasks
  /\ tasks[i].name = "schedule_publish_content"
  /\ Due(tasks[i], now)
  /\ PublishBegin("schedule_publish_content", tasks[i].arg, Nobody)
  /\ UNCHANGED <<now, drafts, connected, tasks, posts, tweets, snapshots>>

\* post_tweet raises unless the platform answers 201; the LinkedIn branch
\* calls no client
ClientOutcomes(platform) ==
  IF platform = "twitter" THEN {"created", "failed", "timeout"} ELSE {"created"}

\* mutant: a timed-out call is not raised
ClientRaises_OnlyFailed(outcome) == outcome = "failed"

ClientRaises(outcome) == outcome # "created"

ClientError(outcome) ==
  IF outcome = "timeout" THEN "TimeoutError" ELSE "Tweet posting failed"

ClientErrors == {ClientError(o) : o \in {"failed", "timeout"}}

ExternalId(platform, t, n) ==
  IF platform = "twitter" THEN <<"twitter", n>> ELSE <<"linkedin", t>>

MetricsTask(post_id, t) ==
  [name |-> "schedule_engagement_tracking", arg |-> post_id,
   eta |-> t + MetricsCountdown]

\* publish_content from the platform call to its return
publish_finish(ds, ps, ts, tw, t, d, outcome, broker_ok) ==
  IF ClientRaises(outcome)
  THEN [drafts |-> ds, posts |-> ps, tasks |-> ts, tweets |-> tw,
        result |-> ClientError(outcome)]
  ELSE
    LET called == ds[d].platform = "twitter"
        tw2 == IF called THEN [tw EXCEPT ![d] = @ + 1] ELSE tw
        post == [draft_id |-> d, user_id |-> ds[d].user_id,
                 platform |-> ds[d].platform, content |-> ds[d].content,
                 external_id |-> ExternalId(ds[d].platform, t, tw2[d]),
                 published_at |-> t]
        ps2 == Append(ps, post)
        ds2 == [ds EXCEPT ![d].status = "published"]
    IN IF broker_ok
       THEN [drafts |-> ds2, posts |-> ps2,
             tasks |-> Append(ts, MetricsTask(Len(ps2), t)), tweets |-> tw2,
             result |-> "success"]
       ELSE [drafts |-> ds2, posts |-> ps2, tasks |-> ts, tweets |-> tw2,
             result |-> "OperationalError"]

PublishFinish(d, outcome, broker_ok) ==
  LET r == publish_finish(drafts, posts, tasks, tweets, now, d, outcome, broker_ok)
  IN /\ inflight[d] > 0
     /\ outcome \in ClientOutcomes(drafts[d].platform)
     /\ Len(r.posts) <= MaxPosts
     /\ Len(r.tasks) <= MaxTasks
     /\ drafts' = r.drafts
     /\ posts' = r.posts
     /\ tasks' = r.tasks
     /\ tweets' = r.tweets
     /\ inflight' = [inflight EXCEPT ![d] = @ - 1]
     /\ last' = Done("publish_content", d, Nobody, r.result)
     /\ UNCHANGED <<now, connected, snapshots>>

(* ------------------------------ the tracker ---------------------------- *)
Max(a, b) == IF a >= b THEN a ELSE b

\* the public_metrics a platform may report for a tweet
PublicMetrics ==
  [like_count : 0..2, retweet_count : 0..2, reply_count : 0..2,
   impression_count : {0, 1, 1000, 1000000, 10000000}]

\* mutant: likes weigh more than comments
Weighted_LikesHeavy(likes, shares, comments) ==
  (likes * 7) + (shares * 3) + (comments * 5)

Weighted(likes, shares, comments) == (likes * 1) + (shares * 3) + (comments * 5)

\* engagement scores are counted in ScoreUnit-ths of a point, rounded down
_calculate_engagement_score(metrics) ==
  LET likes == metrics.like_count
      shares == metrics.retweet_count
      comments == metrics.reply_count
      impressions == Max(metrics.impression_count, 1)
      weighted == Weighted(likes, shares, comments)
  IN Min(100 * ScoreUnit, (weighted * 100 * 1000 * ScoreUnit) \div impressions)

RealMetrics(post_id, m, t) ==
  [post_id |-> post_id, likes |-> m.like_count, shares |-> m.retweet_count,
   comments |-> m.reply_count, impressions |-> m.impression_count, clicks |-> 0,
   engagement_score |-> _calculate_engagement_score(m), collected_at |-> t]

MockMetrics(post_id, t) ==
  [post_id |-> post_id, likes |-> 50, shares |-> 5, comments |-> 3,
   impressions |-> 1000, clicks |-> 25, engagement_score |-> 75 * ScoreUnit,
   collected_at |-> t]

\* get_tweet_metrics answers with the tweet's public_metrics, answers with
\* an empty object on a status other than 200, or raises; no call is made for
\* another platform
NoMetrics ==
  [like_count |-> 0, retweet_count |-> 0, reply_count |-> 0,
   impression_count |-> 0]

\* the report used where a collection is one step among many
SampleMetrics ==
  [like_count |-> 1, retweet_count |-> 1, reply_count |-> 1,
   impression_count |-> 1000000]

MetricsResponses(platform) ==
  IF platform = "twitter"
  THEN {[kind |-> "data", public_metrics |-> SampleMetrics]}
         \cup {[kind |-> k, public_metrics |-> NoMetrics] : k \in {"empty", "raises"}}
  ELSE {[kind |-> "no call", public_metrics |-> NoMetrics]}

\* mutant: the new row replaces the rows collected before
AddSnapshot_Replace(sn, row) == <<row>>

\* db.add(metrics); db.commit()
AddSnapshot(sn, row) == Append(sn, row)

collect_engagement_metrics(ps, conn, sn, t, post_id, response) ==
  IF post_id \notin DOMAIN ps
  THEN [snapshots |-> sn, result |-> "Post not found"]
  ELSE IF ~HasIntegration(conn, ps[post_id].user_id, ps[post_id].platform)
  THEN [snapshots |-> sn, result |-> "Integration not found"]
  ELSE IF ps[post_id].platform = "twitter" /\ response.kind = "raises"
  THEN [snapshots |-> sn, result |-> "ClientError"]
  ELSE IF ps[post_id].platform = "twitter" /\ response.kind = "data"
  THEN [snapshots |-> AddSnapshot(sn, RealMetrics(post_id, response.public_metrics, t)),
        result |-> "success"]
  ELSE [snapshots |-> AddSnapshot(sn, MockMetrics(post_id, t)),
        result |-> "success mock"]

\* the broker hands a due schedule_engagement_tracking task to a worker
DeliverMetrics(i, response) ==
  /\ i \in DOMAIN tasks
  /\ tasks[i].name = "schedule_engagement_tracking"
  /\ Due(tasks[i], now)
  /\ tasks[i].arg \in DOMAIN posts
       => response \in MetricsResponses(posts[tasks[i].arg].platform)
  /\ LET r == collect_engagement_metrics(posts, connected, snapshots, now,
                                         tasks[i].arg, response)
     IN /\ Len(r.snapshots) <= MaxSnapshots
        /\ snapshots' = r.snapshots
        /\ last' = Done("collect_engagement_metrics", tasks[i].arg, Nobody,
                        r.result)
  /\ UNCHANGED <<now, drafts, connected, tasks, posts, inflight, tweets>>

(* -------------------------------- the clock ---------------------------- *)
\* the clock is advanced to the instants at which a queued task falls due,
\* as long as it is within Horizon minutes of the start
Instants == {tasks[i].eta : i \in DOMAIN tasks}

Tick(t) ==
  /\ t > now
  /\ now < StartTime + Horizon
  /\ now' = t
  /\ last' = NoCall
  /\ UNCHANGED <<drafts, connected, tasks, posts, inflight, tweets, snapshots>>

Next ==
  \/ \E u \in Owners, p \in Platforms, n \in 1..NumDrafts :
       \E cs \in [1..n -> Contents] : GenerateDrafts(u, p, cs)
  \/ \E d \in DraftIds, u \in Callers, t \in ScheduleTimes,
        auto \in BOOLEAN, b \in BOOLEAN : Schedule(d, u, t, auto, b)
  \/ \E d \in DraftIds, u \in Callers : Cancel(d, u)
  \/ \E d \in DraftIds, u \in Callers, t \in {now - 1, now + 1}, b \in BOOLEAN :
       Reschedule(d, u, t, b)
  \/ \E d \in DraftIds, u \in Callers, t \in {None, now + 1} : Approve(d, u, t)
  \/ \E d \in DraftIds, u \in Callers : Reject(d, u)
  \/ \E d \in DOMAIN drafts : Connect(drafts[d].user_id, drafts[d].platform)
  \/ \E u \in Owners, p \in Platforms : Disconnect(u, p)
  \/ \E d \in DraftIds, u \in Callers : PublishNow(d, u)
  \/ \E i \in 1..MaxTasks : DeliverPublish(i)
  \/ \E d \in DraftIds, o \in {"created", "failed", "timeout"},
        b \in BOOLEAN : PublishFinish(d, o, b)
  \/ \E t \in Instants : Tick(t)

Spec == Init /\ [][Next]_vars

\* The queue scenario: drafts are scheduled from pending only and published
\* only by the queue, which may deliver a task more than once; the owner may
\* cancel and may disconnect the platform meanwhile.
ScheduleFromPending(d, u, t, auto, b) ==
  /\ d \in DOMAIN drafts
  /\ drafts[d].status = "pending"
  /\ Schedule(d, u, t, auto, b)

NextRedelivery ==
  \/ \E u \in Owners, p \in Platforms, n \in 1..NumDrafts :
       \E cs \in [1..n -> Contents] : GenerateDrafts(u, p, cs)
  \/ \E d \in DOMAIN drafts : Connect(drafts[d].user_id, drafts[d].platform)
  \/ \E d \in DraftIds, u \in Callers, t \in {None, now + 1},
        auto \in BOOLEAN, b \in BOOLEAN : ScheduleFromPending(d, u, t, auto, b)
  \/ \E d \in DraftIds, u \in Callers : Cancel(d, u)
  \/ \E u \in Owners, p \in Platforms : Disconnect(u, p)
  \/ \E i \in 1..MaxTasks : DeliverPublish(i)
  \/ \E d \in DraftIds, o \in {"created", "failed", "timeout"},
        b \in BOOLEAN : PublishFinish(d, o, b)
  \/ \E t \in Instants : Tick(t)

SpecRedelivery == Init /\ [][NextRedelivery]_vars

\* The access scenario: every user, the draft's owner or not, calls the draft
\* endpoints at one instant; the queue delivers nothing.
NextAccess ==
  \/ \E u \in Owners, p \in Platforms, n \in 1..NumDrafts :
       \E cs \in [1..n -> Contents] : GenerateDrafts(u, p, cs)
  \/ \E d \in DOMAIN drafts : Connect(drafts[d].user_id, drafts[d].platform)
  \/ \E u \in Owners, p \in Platforms : Disconnect(u, p)
  \/ \E d \in DraftIds, u \in Users, t \in {now - 1, now + 1} :
       Schedule(d, u, t, FALSE, TRUE)
  \/ \E d \in DraftIds, u \in Users : Cancel(d, u)
  \/ \E d \in DraftIds, u \in Users, t \in {now - 1, now + 1} :
       Reschedule(d, u, t, TRUE)
  \/ \E d \in DraftIds, u \in Users, t \in {None, now + 1} : Approve(d, u, t)
  \/ \E d \in DraftIds, u \in Users : Reject(d, u)
  \/ \E d \in DraftIds, u \in Users : PublishNow(d, u)
  \/ \E d \in DraftIds, o \in {"created", "failed", "timeout"} :
       PublishFinish(d, o, TRUE)

SpecAccess == Init /\ [][NextAccess]_vars

(* ------------------------------ the listing ---------------------------- *)
\* mutant: the window excludes its end points
Between_Open(x, lo, hi) == x # None /\ lo < x /\ x < hi

\* SQL BETWEEN: both ends included, never true of NULL
Between(x, lo, hi) == x # None /\ lo <= x /\ x <= hi

ScheduledRow(ds, d) ==
  [id |-> d, platform |-> ds[d].platform, scheduled_for |-> ds[d].scheduled_for]

\* the lists the query may return: the matching rows in ascending
\* scheduled_for, rows of equal scheduled_for in any order
get_scheduled_content(ds, t, user_id, days_ahead) ==
  LET end_date == t + days_ahead * MinutesPerDay
      rows == {d \in DOMAIN ds : /\ ds[d].user_id = user_id
                                 /\ ds[d].status = "scheduled"
                                 /\ Between(ds[d].scheduled_for, t, end_date)}
      orders == {s \in [1..Cardinality(rows) -> rows] :
                   /\ \A i, j \in DOMAIN s : i # j => s[i] # s[j]
                   /\ \A i, j \in DOMAIN s :
                        i < j => ds[s[i]].scheduled_for <= ds[s[j]].scheduled_for}
  IN {[i \in DOMAIN s |-> ScheduledRow(ds, s[i])] : s \in orders}

\* GET /content/scheduled?days_ahead=
ListScheduled(u, days_ahead) ==
  /\ \E res \in get_scheduled_content(drafts, now, u, days_ahead) :
       last' = Done("get_scheduled_content", 0, u, res)
  /\ UNCHANGED <<now, drafts, connected, tasks, posts, inflight, tweets, snapshots>>

\* The listing scenario: the table holds any NumListed drafts the endpoints
\* can leave behind, scheduled before, at and after the ends of the window.
ListDays == {1, 7}

ListTimes ==
  {StartTime - 1, StartTime, StartTime + MinutesPerDay,
   StartTime + MinutesPerDay + 1}

\* a pending draft has no time; a draft approved, rejected or published
\* after it was given a time keeps that time, here one inside the window
ListedDraft ==
  {r \in [user_id : Users, platform : {"twitter"}, content : Contents,
          status : {"pending", "approved", "scheduled", "published", "rejected"},
          scheduled_for : ListTimes \cup {None}] :
     /\ r.status = "pending" => r.scheduled_for = None
     /\ r.status = "scheduled" => r.scheduled_for # None
     /\ r.status \in {"approved", "published", "rejected"}
          => r.scheduled_for = StartTime}

InitListing ==
  /\ now = StartTime
  /\ drafts \in [1..NumListed -> ListedDraft]
  /\ connected = {}
  /\ tasks = <<>>
  /\ posts = <<>>
  /\ inflight = [d \in DraftIds |-> 0]
  /\ tweets = [d \in DraftIds |-> 0]
  /\ snapshots = <<>>
  /\ last = NoCall

NextListing == \E u \in Users, days \in ListDays : ListScheduled(u, days)

SpecListing == InitListing /\ [][NextListing]_vars

\* The metrics scenario: the owner schedules and publishes, the queue
\* delivers publish and metrics tasks, each possibly more than once, and the
\* platform may be disconnected meanwhile.
NextMetrics ==
  \/ \E u \in Owners, p \in Platforms, n \in 1..NumDrafts :
       \E cs \in [1..n -> Contents] : GenerateDrafts(u, p, cs)
  \/ \E d \in DOMAIN drafts : Connect(drafts[d].user_id, drafts[d].platform)
  \/ \E u \in Owners, p \in Platforms : Disconnect(u, p)
  \/ \E d \in DraftIds, u \in Callers, t \in {None, now + 1} :
       Schedule(d, u, t, FALSE, TRUE)
  \/ \E d \in DraftIds, u \in Callers : Cancel(d, u)
  \/ \E d \in DraftIds, u \in Callers : Reschedule(d, u, now + 1, TRUE)
  \/ \E d \in DraftIds, u \in Callers : Reject(d, u)
  \/ \E d \in DraftIds, u \in Callers : PublishNow(d, u)
  \/ \E i \in 1..MaxTasks : DeliverPublish(i)
  \/ \E d \in DraftIds, o \in {"created", "failed"} : PublishFinish(d, o, TRUE)
  \/ \E i \in 1..MaxTasks, r \in MetricsResponses("twitter") \cup
                                  MetricsResponses("linkedin") :
       DeliverMetrics(i, r)
  \/ \E t \in Instants : Tick(t)

SpecMetrics == Init /\ [][NextMetrics]_vars

\* The score scenario: the engagement score is computed for any report.
EngagementScore(m) ==
  /\ last' = Done("_calculate_engagement_score", 0, Nobody,
                  [metrics |-> m, score |-> _calculate_engagement_score(m)])
  /\ UNCHANGED <<now, drafts, connected, tasks, posts, inflight, tweets, snapshots>>

NextScores == \E m \in PublicMetrics : EngagementScore(m)

SpecScores == Init /\ [][NextScores]_vars

\* The end-to-end scenario: the owner generates a draft, connects the
\* platform and schedules with auto_optimize; any user lists the scheduled
\* content; the clock reaches the task's eta and the queue delivers it.
NextEndToEnd ==
  \/ \E u \in Owners, p \in Platforms, n \in 1..NumDrafts :
       \E cs \in [1..n -> Contents] : GenerateDrafts(u, p, cs)
  \/ \E d \in DOMAIN drafts : Connect(drafts[d].user_id, drafts[d].platform)
  \/ \E d \in DraftIds, u \in Callers, t \in {None, now + 1}, b \in BOOLEAN :
       ScheduleFromPending(d, u, t, TRUE, b)
  \/ \E u \in Users, days \in ListDays : ListScheduled(u, days)
  \/ \E i \in 1..MaxTasks : DeliverPublish(i)
  \/ \E d \in DraftIds, o \in {"created", "failed", "timeout"},
        b \in BOOLEAN : PublishFinish(d, o, b)
  \/ \E t \in Instants : Tick(t)

SpecEndToEnd == Init /\ [][NextEndToEnd]_vars

\* The delivery scenario: the owner schedules a pending draft and may ask for
\* an immediate publish; nobody cancels, rejects or disconnects.  With
\* Celery's defaults a worker acknowledges a task message when it starts the
\* task, and schedule_publish_content returns the publisher's error as its
\* result: the message is gone whatever the publish returned.
Acknowledge(ts, i) == [ts EXCEPT ![i].name = "acknowledged"]

RunPublish(i) ==
  /\ i \in DOMAIN tasks
  /\ tasks[i].name = "schedule_publish_content"
  /\ Due(tasks[i], now)
  /\ PublishBegin("schedule_publish_content", tasks[i].arg, Nobody)
  /\ tasks' = Acknowledge(tasks, i)
  /\ UNCHANGED <<now, drafts, connected, posts, tweets, snapshots>>

NextDelivery ==
  \/ \E u \in Owners, p \in Platforms, n \in 1..NumDrafts :
       \E cs \in [1..n -> Contents] : GenerateDrafts(u, p, cs)
  \/ \E d \in DOMAIN drafts : Connect(drafts[d].user_id, drafts[d].platform)
  \/ \E d \in DraftIds, u \in Callers, t \in {None, now + 1},
        auto \in BOOLEAN : ScheduleFromPending(d, u, t, auto, TRUE)
  \/ \E d \in DraftIds, u \in Callers : PublishNow(d, u)
  \/ \E i \in 1..MaxTasks : RunPublish(i)
  \/ \E d \in DraftIds, o \in {"created", "failed", "timeout"} :
       PublishFinish(d, o, TRUE)
  \/ \E t \in Instants : Tick(t)

\* the clock advances, a due task is run, a platform call returns, and a
\* platform call that is made again and again succeeds in the end
FairDelivery ==
  /\ WF_vars(\E t \in Instants : Tick(t))
  /\ WF_vars(\E i \in 1..MaxTasks : RunPublish(i))
  /\ \A d \in DraftIds :
       /\ WF_vars(\E o \in {"created", "failed", "timeout"} :
                    PublishFinish(d, o, TRUE))
       /\ SF_vars(PublishFinish(d, "created", TRUE))

SpecDelivery == Init /\ [][NextDelivery]_vars /\ FairDelivery

(* ------------------------------ the reports ---------------------------- *)
\* mutant: the row with the lowest id is taken
LatestOf_First(sn, mine) == {i \in mine : \A j \in mine : i <= j}

\* order_by(collected_at.desc()).first(): a row no other row is later than
LatestOf(sn, mine) ==
  {i \in mine : \A j \in mine : sn[j].collected_at <= sn[i].collected_at}

\* the answers the query may give
get_post_performance(ps, sn, post_id, user_id) ==
  IF ~(post_id \in DOMAIN ps /\ ps[post_id].user_id = user_id)
  THEN {[error |-> "Post not found"]}
  ELSE LET mine == {i \in DOMAIN sn : sn[i].post_id = post_id}
       IN IF mine = {}
          THEN {[error |-> "No engagement data available"]}
          ELSE {[post_id |-> post_id, platform |-> ps[post_id].platform,
                 published_at |-> ps[post_id].published_at,
                 metrics |-> sn[i], last_updated |-> sn[i].collected_at] :
                i \in LatestOf(sn, mine)}

\* GET /content/posts/{post_id}/performance
PostPerformance(post_id, u) ==
  /\ \E res \in get_post_performance(posts, snapshots, post_id, u) :
       last' = Done("get_post_performance", post_id, u, res)
  /\ UNCHANGED <<now, drafts, connected, tasks, posts, inflight, tweets, snapshots>>

\* mutant: posts of any age are taken
InWindow_Any(published_at, t, days) == TRUE

\* Post.published_at >= datetime.now() - timedelta(days=days)
InWindow(published_at, t, days) == published_at >= t - days * MinutesPerDay

_generate_performance_recommendations(avg_engagement, total_posts) ==
  LET all == (IF avg_engagement < 50 * ScoreUnit THEN <<"engaging content">> ELSE <<>>)
             \o (IF total_posts < 10 THEN <<"posting frequency">> ELSE <<>>)
             \o <<"optimal times">>
  IN SubSeq(all, 1, Min(3, Len(all)))

\* drafts carry no themes here, so that the per-theme part stays empty
get_performance_insights(ps, sn, t, user_id, days) ==
  LET rows == {r \in (DOMAIN ps) \X (DOMAIN sn) :
                 /\ sn[r[2]].post_id = r[1]
                 /\ ps[r[1]].user_id = user_id
                 /\ InWindow(ps[r[1]].published_at, t, days)}
  IN IF rows = {}
     THEN [message |-> "No performance data available"]
     ELSE LET score == [r \in rows |-> sn[r[2]].engagement_score]
              total_posts == Cardinality(rows)
              avg_engagement == SumOver(score, rows) \div total_posts
              best == CHOOSE r \in rows : \A q \in rows : score[q] <= score[r]
          IN [summary |-> [total_posts |-> total_posts,
                           avg_engagement_score |-> avg_engagement,
                           days |-> days],
              best_performing |-> [engagement_score |-> score[best]],
              top_themes |-> <<>>,
              recommendations |->
                _generate_performance_recommendations(avg_engagement,
                                                      total_posts)]

\* GET /content/insights?days=
Insights(u, days) ==
  /\ last' = Done("get_performance_insights", days, u,
                  get_performance_insights(posts, snapshots, now, u, days))
  /\ UNCHANGED <<now, drafts, connected, tasks, posts, inflight, tweets, snapshots>>

\* The report scenario: the tables hold any NumReported posts of the two
\* users, published just inside and just outside the shorter window, and any
\* snapshots of them the tracker can have written, in the order written.
InsightDays == {7, 30}

ReportNow == StartTime + 31 * MinutesPerDay

ReportedPost ==
  [draft_id : {1}, user_id : Users, platform : {"twitter"}, content : Contents,
   external_id : {<<"twitter", 1>>},
   published_at : {ReportNow - 7 * MinutesPerDay - 1,
                   ReportNow - 7 * MinutesPerDay}]

ReportedSnapshot ==
  UNION {{MockMetrics(p, t), RealMetrics(p, SampleMetrics, t)} :
           p \in 1..NumReported, t \in {ReportNow - 1, ReportNow}}

ReportedSnapshots ==
  {sn \in UNION {[1..n -> ReportedSnapshot] : n \in 0..MaxSnapshots} :
     \A i, j \in DOMAIN sn : i < j => sn[i].collected_at <= sn[j].collected_at}

InitReports ==
  /\ now = ReportNow
  /\ drafts = <<>>
  /\ connected = {}
  /\ tasks = <<>>
  /\ posts \in [1..NumReported -> ReportedPost]
  /\ inflight = [d \in DraftIds |-> 0]
  /\ tweets = [d \in DraftIds |-> 0]
  /\ snapshots \in ReportedSnapshots
  /\ last = NoCall

NextReports ==
  \/ \E p \in 1..(NumReported + 1), u \in Users : PostPerformance(p, u)
  \/ \E u \in Users, days \in InsightDays : Insights(u, days)

SpecReports == InitReports /\ [][NextReports]_vars

(* ------------------------- the advisor on its own ---------------------- *)
\* The advisor scenario: the recommendation and the score are asked for at
\* any minute of the sample below, on any day of the week, for any platform
\* and any mix of keyword classes.
AdvisorMinutes == {0, 29, 30, 31, 55, 59}

AdvisorTimes ==
  {d * MinutesPerDay + h * 60 + m : d \in 0..6, h \in 0..23, m \in AdvisorMinutes}

AdvisorContents ==
  {{}, {"breaking"}, {"motivation"}, {"learn"}, {"urgent", "goal"},
   {"breaking", "tip"}, {"inspire", "guide"}, {"breaking", "success", "how to"}}

Advice(platform, content, t) ==
  LET instant == _calculate_optimal_time(platform, content, t)
  IN [platform |-> platform, content |-> content, at |-> t,
      instant |-> instant,
      score |-> _calculate_timing_score(instant, platform)]

Advise(platform, content) ==
  /\ last' = Done("_calculate_optimal_time", 0, Nobody,
                  Advice(platform, content, now))
  /\ UNCHANGED <<now, drafts, connected, tasks, posts, inflight, tweets, snapshots>>

Score(platform) ==
  /\ last' = Done("_calculate_timing_score", 0, Nobody,
                  [platform |-> platform, at |-> now,
                   score |-> _calculate_timing_score(now, platform)])
  /\ UNCHANGED <<now, drafts, connected, tasks, posts, inflight, tweets, snapshots>>

InitAdvisor ==
  /\ now \in AdvisorTimes
  /\ drafts = <<>>
  /\ connected = {}
  /\ tasks = <<>>
  /\ posts = <<>>
  /\ inflight = [d \in DraftIds |-> 0]
  /\ tweets = [d \in DraftIds |-> 0]
  /\ snapshots = <<>>
  /\ last = NoCall

NextAdvisor ==
  \/ \E p \in Platforms, c \in AdvisorContents : Advise(p, c)
  \/ \E p \in Platforms : Score(p)

SpecAdvisor == InitAdvisor /\ [][NextAdvisor]_vars

(* ------------------------------- properties ---------------------------- *)
PostsOf(d) == Cardinality({i \in DOMAIN posts : posts[i].draft_id = d})

MetricsTasksOf(d) ==
  Cardinality({i \in DOMAIN tasks :
                 /\ tasks[i].name = "schedule_engagement_tracking"
                 /\ posts[tasks[i].arg].draft_id = d})

IsPrefix(a, b) == Len(a) <= Len(b) /\ \A i \in DOMAIN a : a[i] = b[i]

PublishOps == {"publish_content_immediately", "schedule_publish_content"}

\* C1: in every reachable state a draft is scheduled iff its scheduled_for
\* is set.
C1_ScheduledIffScheduledFor ==
  \A d \in DOMAIN drafts :
    drafts[d].status = "scheduled" <=> drafts[d].scheduled_for # None

\* C2: once publish_content has returned success for a draft, exactly one
\* Post references the draft and exactly one metrics task is queued for it;
\* a publish call on a published draft fails and adds no Post and no task.
C2_OnePostOneMetricsTask ==
  [][\A d \in DOMAIN drafts :
       /\ (last'.op = "publish_content" /\ last'.draft_id = d
             /\ last'.result = "success")
            => (PostsOf(d)' = 1 /\ MetricsTasksOf(d)' = 1)
       /\ (last'.op \in PublishOps /\ last'.draft_id = d
             /\ drafts[d].status = "published")
            => (last'.result = "Scheduled draft not found"
                /\ posts' = posts /\ tasks' = tasks /\ inflight' = inflight)
    ]_vars

\* C3: every step leaves at most one Post per draft and keeps every existing
\* Post as it was.
C3_AtMostOnePostNeverChanged ==
  [][/\ \A d \in DOMAIN drafts' : PostsOf(d)' <= 1
     /\ IsPrefix(posts, posts')]_vars

\* C4: a schedule call by the owner on a draft that is not pending (a
\* second schedule in a row included) does not succeed and changes neither
\* the draft nor the queue.
C4_ScheduleOnlyFromPending ==
  [][\A d \in DOMAIN drafts, t \in ScheduleTimes, auto \in BOOLEAN :
       (Schedule(d, drafts[d].user_id, t, auto, TRUE)
         /\ drafts[d].status # "pending")
        => (last'.result # "success" /\ drafts' = drafts /\ tasks' = tasks)
    ]_vars

\* C5: a schedule call with the explicit time now - 1 returns the past-time
\* error, whatever auto_optimize is, and changes neither the draft nor the
\* queue.
C5_PastTimeAlwaysRejected ==
  [][\A d \in DOMAIN drafts, auto \in BOOLEAN :
       (Schedule(d, drafts[d].user_id, now - 1, auto, TRUE)
         /\ HasIntegration(connected, drafts[d].user_id, drafts[d].platform))
        => (last'.result = "Cannot schedule content in the past"
            /\ drafts' = drafts /\ tasks' = tasks)
    ]_vars

\* C6: a publish call on a draft whose status is neither pending nor
\* scheduled returns the not-found error of the status filter, starts no
\* platform call and changes no draft, post or task.
C6_PublishTerminalFails ==
  [][\A d \in DOMAIN drafts :
       (last'.op \in PublishOps /\ last'.draft_id = d
         /\ drafts[d].status \notin {"pending", "scheduled"})
        => (last'.result = "Scheduled draft not found"
            /\ UNCHANGED <<drafts, posts, tasks, tweets, inflight>>)
    ]_vars

C6_Witness ==
  /\ last.op = "publish_content_immediately"
  /\ last.result = "Scheduled draft not found"
  /\ last.draft_id \in DOMAIN drafts
  /\ drafts[last.draft_id].status = "published"
  /\ PostsOf(last.draft_id) = 1

\* C7: when the platform call of a publish fails or times out, the call
\* returns the client's error and changes no draft, post, task or tweet.
C7_ClientFailureChangesNothing ==
  [][\A d \in DOMAIN drafts, o \in {"failed", "timeout"}, b \in BOOLEAN :
       PublishFinish(d, o, b)
        => (last'.result \in ClientErrors
            /\ UNCHANGED <<drafts, posts, tasks, tweets>>)
    ]_vars

C7_Witness ==
  /\ last.op = "publish_content"
  /\ last.result = "TimeoutError"
  /\ drafts[last.draft_id].status = "scheduled"
  /\ drafts[last.draft_id].scheduled_for # None
  /\ PostsOf(last.draft_id) = 0

\* C8: when drafts are published by the queue only, however often and
\* however interleaved a publish task is delivered, a draft is posted to the
\* platform at most once and has at most one Post.
C8_PublishedAtMostOnce ==
  \A d \in DOMAIN drafts : tweets[d] <= 1 /\ PostsOf(d) <= 1

C10_CancelledTaskAborts ==
  [][\A d \in DOMAIN drafts :
       (/\ last.op = "cancel_scheduled_content" /\ last.draft_id = d
        /\ last.user_id = drafts[d].user_id
        /\ last.result # "Scheduled draft not found"
        /\ inflight[d] = 0
        /\ last'.op = "schedule_publish_content" /\ last'.draft_id = d)
        => (/\ last'.result = "Scheduled draft not found"
            /\ inflight' = inflight /\ posts' = posts /\ tweets' = tweets
            /\ drafts'[d].status = "pending"
            /\ drafts'[d].scheduled_for = None)
    ]_vars

\* the publish tasks of draft d in queue ts that are not yet due at time t
LivePublishTasks(ts, t, d) ==
  {i \in DOMAIN ts : /\ ts[i].name = "schedule_publish_content"
                     /\ ts[i].arg = d
                     /\ ts[i].eta > t}

\* C11: a cancel call by the owner on a scheduled draft whose publish task is
\* queued returns success and leaves the draft pending with no scheduled_for;
\* on a draft in any other status it does not succeed and changes neither
\* the draft nor the queue.
C11_CancelScheduledSucceeds ==
  [][\A d \in DOMAIN drafts :
       Cancel(d, drafts[d].user_id) =>
         IF /\ drafts[d].status = "scheduled"
            /\ LivePublishTasks(tasks, now, d) # {}
         THEN /\ last'.result = "success"
              /\ drafts'[d].status = "pending"
              /\ drafts'[d].scheduled_for = None
         ELSE drafts[d].status # "scheduled"
                => (last'.result # "success"
                    /\ drafts' = drafts /\ tasks' = tasks)
    ]_vars

\* C12: when the owner's cancel of a scheduled draft with one queued publish
\* task has returned and the owner then schedules the draft for the explicit
\* time now + 1, the draft is scheduled for now + 1 and exactly one publish
\* task of the draft is live.
C12_CancelThenSchedule ==
  [][\A d \in DOMAIN drafts :
       (/\ last.op = "cancel_scheduled_content" /\ last.draft_id = d
        /\ last.user_id = drafts[d].user_id
        /\ last.result # "Scheduled draft not found"
        /\ Cardinality(LivePublishTasks(tasks, now, d)) = 1
        /\ HasIntegration(connected, drafts[d].user_id, drafts[d].platform)
        /\ Schedule(d, drafts[d].user_id, now + 1, FALSE, TRUE))
        => (/\ last'.result = "success"
            /\ drafts'[d].status = "scheduled"
            /\ drafts'[d].scheduled_for = now + 1
            /\ Cardinality(LivePublishTasks(tasks', now', d)) = 1)
    ]_vars

\* C13: a reschedule call on a draft that is missing, not owned by the
\* caller or not scheduled does not succeed and changes neither the drafts
\* nor the queue.
C13_RescheduleCancelFails ==
  [][\A d \in DraftIds, u \in Users, t \in {now - 1, now + 1} :
       (/\ Reschedule(d, u, t, TRUE)
        /\ \/ d \notin DOMAIN drafts
           \/ drafts[d].user_id # u
           \/ drafts[d].status # "scheduled")
        => (last'.result # "success" /\ drafts' = drafts /\ tasks' = tasks)
    ]_vars

C13_Witness ==
  /\ last.op = "reschedule_content"
  /\ last.result = "Scheduled draft not found"
  /\ last.draft_id \in DOMAIN drafts
  /\ last.user_id = drafts[last.draft_id].user_id
  /\ drafts[last.draft_id].status = "pending"
  /\ HasIntegration(connected, last.user_id, drafts[last.draft_id].platform)

C15_NotOwnedIsNotFound ==
  [][\A d \in DOMAIN drafts, t \in {None, now - 1, now + 1} :
     \A u \in Users \ {drafts[d].user_id} :
       LET missing == Len(drafts) + 1 IN
       /\ Schedule(d, u, t, FALSE, TRUE)
            => (/\ last'.result =
                     schedule_content(drafts, tasks, connected, now, missing,
                                      u, t, FALSE, TRUE).result
                /\ drafts' = drafts /\ tasks' = tasks)
       /\ Cancel(d, u)
            => (/\ last'.result =
                     cancel_scheduled_content(drafts, missing, u).result
                /\ drafts' = drafts /\ tasks' = tasks)
       /\ Reschedule(d, u, t, TRUE)
            => (/\ last'.result =
                     reschedule_content(drafts, tasks, connected, now, missing,
                                        u, t, TRUE).result
                /\ drafts' = drafts /\ tasks' = tasks)
    ]_vars

C15_Witness ==
  /\ last.op = "schedule_content"
  /\ last.result = "Draft not found"
  /\ last.draft_id \in DOMAIN drafts
  /\ last.user_id # drafts[last.draft_id].user_id
  /\ drafts[last.draft_id].status = "scheduled"
  /\ LivePublishTasks(tasks, now, last.draft_id) # {}

\* C16: a publish request by a user who does not own the draft never
\* publishes it: when the only publish of the draft in flight is the one that
\* request started, its platform call adds no Post and leaves the draft as
\* it was.
C16_PublishNowByNonOwner ==
  [][\A d \in DOMAIN drafts :
       (/\ last.op = "publish_content_immediately" /\ last.draft_id = d
        /\ last.user_id # drafts[d].user_id
        /\ inflight[d] = 1
        /\ PublishFinish(d, "created", TRUE))
        => (posts' = posts /\ drafts' = drafts /\ last'.result # "success")
    ]_vars

\* C17: a publish request by the owner on a pending draft whose platform is
\* connected passes the publisher's lookup, so that its platform call is
\* started.
C17_PublishNowFromPending ==
  [][\A d \in DOMAIN drafts :
       (/\ PublishNow(d, drafts[d].user_id)
        /\ drafts[d].status = "pending"
        /\ HasIntegration(connected, drafts[d].user_id, drafts[d].platform))
        => (last'.result = "in_progress" /\ inflight'[d] = inflight[d] + 1)
    ]_vars

LifecycleStates == {"pending", "scheduled", "published", "rejected"}

LifecycleTransitions ==
  {<<"pending", "scheduled">>, <<"scheduled", "published">>,
   <<"pending", "published">>, <<"pending", "rejected">>,
   <<"scheduled", "pending">>}

\* C18: every draft's status is one of pending, scheduled, published and
\* rejected, and every step that changes a draft's status takes one of the
\* transitions pending->scheduled, scheduled->published, pending->published,
\* pending->rejected, scheduled->pending (so rejected and published are
\* never left).
C18_LifecycleTransitions ==
  [][/\ \A d \in DOMAIN drafts' : drafts'[d].status \in LifecycleStates
     /\ \A d \in DOMAIN drafts :
          drafts'[d].status # drafts[d].status
            => <<drafts[d].status, drafts'[d].status>> \in LifecycleTransitions
    ]_vars

\* C19: while the owner of a pending or scheduled draft has no connected
\* integration for the draft's platform, a schedule call by the owner
\* returns the no-connected-account error and a publish call (by request or
\* by the queue) returns the no-connected-integration error, and neither
\* changes a draft, a post, the queue or the publishes in flight.
C19_NoIntegrationFails ==
  [][\A d \in DOMAIN drafts :
       (/\ ~HasIntegration(connected, drafts[d].user_id, drafts[d].platform)
        /\ drafts[d].status \in {"pending", "scheduled"}
        /\ last'.draft_id = d)
        => /\ (last'.op = "schedule_content"
                /\ last'.user_id = drafts[d].user_id)
               => (/\ last'.result = "No connected account"
                   /\ UNCHANGED <<drafts, posts, tasks, inflight>>)
           /\ last'.op \in PublishOps
               => (/\ last'.result = "No connected integration"
                   /\ UNCHANGED <<drafts, posts, tasks, inflight>>)
    ]_vars

\* C20: a listing for a user and a number of days returns each draft of that
\* user that is scheduled with scheduled_for from now to now plus the days,
\* once, and nothing else; the rows are in ascending scheduled_for; nothing
\* but the returned result changes.
C20_ListScheduled ==
  [][\A u \in Users, days \in ListDays :
       ListScheduled(u, days) =>
         LET res == last'.result
             ids == {res[i].id : i \in DOMAIN res}
         IN /\ ids = {d \in DOMAIN drafts :
                        /\ drafts[d].user_id = u
                        /\ drafts[d].status = "scheduled"
                        /\ drafts[d].scheduled_for >= now
                        /\ drafts[d].scheduled_for <= now + days * MinutesPerDay}
            /\ Len(res) = Cardinality(ids)
            /\ \A i \in DOMAIN res :
                 res[i].scheduled_for = drafts[res[i].id].scheduled_for
            /\ \A i, j \in DOMAIN res :
                 i < j => res[i].scheduled_for <= res[j].scheduled_for
            /\ UNCHANGED <<now, drafts, connected, tasks, posts, inflight, tweets,
                           snapshots>>
    ]_vars

C20_Witness ==
  /\ last.op = "get_scheduled_content"
  /\ Len(last.result) = 2
  /\ last.result[1].id > last.result[2].id
  /\ last.result[1].scheduled_for < last.result[2].scheduled_for
  /\ \E d \in DOMAIN drafts : drafts[d].user_id # last.user_id

TimeOfDay(t) == t % MinutesPerDay

C26_FutureAndBusinessDay ==
  last.op = "_calculate_optimal_time" =>
    LET r == last.result
    IN /\ r.instant > r.at
       /\ (r.platform = "linkedin" /\ r.content \cap BreakingWords = {})
            => Weekday(r.instant) < 5

\* C27: a recommendation is timed by the first class its content matches, in
\* the order breaking, motivational, educational, default: now + 5 minutes,
\* 08:30, 14:00, and for the default class half past a morning hour of the
\* platform's weekday or weekend table.
C27_ClassPriority ==
  last.op = "_calculate_optimal_time" =>
    LET r == last.result
        class == IF r.content \cap BreakingWords # {} THEN "breaking"
                 ELSE IF r.content \cap MotivationalWords # {} THEN "motivational"
                 ELSE IF r.content \cap EducationalWords # {} THEN "educational"
                 ELSE "default"
    IN /\ class = "breaking" => r.instant = r.at + 5
       /\ class = "motivational" => TimeOfDay(r.instant) = 8 * 60 + 30
       /\ class = "educational" => TimeOfDay(r.instant) = 14 * 60
       /\ class = "default" =>
            TimeOfDay(r.instant) \in
              {MorningHour(r.platform, w) * 60 + 30 : w \in BOOLEAN}

C27_Witness ==
  /\ last.op = "_calculate_optimal_time"
  /\ last.result.content = {"breaking", "success", "how to"}
  /\ last.result.instant = last.result.at + 5
  /\ Weekday(last.result.instant) # Weekday(last.result.at)

\* C28: every score is one of the tier values within 0..100; it is the score
\* of any instant of the same hour and the same kind of day; and for
\* linkedin the score of a weekend instant is at most the score of the same
\* hour on every weekday.
C28_ScoreRange ==
  last.op = "_calculate_timing_score" =>
    LET r == last.result
        hour == HourOf(r.at)
        SameHour(day) == day * MinutesPerDay + hour * 60
        days == IF Weekday(r.at) >= 5 THEN 5..6 ELSE 0..4
    IN /\ r.score \in 0..100
       /\ \A day \in days :
            _calculate_timing_score(SameHour(day), r.platform) = r.score
       /\ (r.platform = "linkedin" /\ Weekday(r.at) >= 5)
            => \A day \in 0..4 :
                 r.score <= _calculate_timing_score(SameHour(day), "linkedin")
       /\ r.platform = "twitter"
            => \A day \in 0..6 :
                 _calculate_timing_score(SameHour(day), "twitter") = r.score

C28_Witness ==
  /\ last.op = "_calculate_timing_score"
  /\ last.result.platform = "linkedin"
  /\ Weekday(last.result.at) = 6
  /\ HourOf(last.result.at) = 9
  /\ last.result.score = 28

AllMetricsResponses == MetricsResponses("twitter") \cup MetricsResponses("linkedin")

\* C22: a metrics collection for an existing post whose owner has no
\* connected integration, whose platform is not twitter, or whose metrics
\* call raises or answers without data adds exactly one placeholder snapshot
\* for the post and returns no error.
C22_PlaceholderWhenUnavailable ==
  [][\A i \in DOMAIN tasks, r \in AllMetricsResponses :
       (/\ DeliverMetrics(i, r)
        /\ tasks[i].arg \in DOMAIN posts
        /\ \/ ~HasIntegration(connected, posts[tasks[i].arg].user_id,
                              posts[tasks[i].arg].platform)
           \/ posts[tasks[i].arg].platform # "twitter"
           \/ r.kind \in {"empty", "raises"})
        => (/\ snapshots' = Append(snapshots, MockMetrics(tasks[i].arg, now))
            /\ last'.result \in {"success", "success mock"})
    ]_vars

\* C23: every step leaves every existing snapshot as it was and adds at most
\* one snapshot.
C23_SnapshotsAppendOnly ==
  [][/\ IsPrefix(snapshots, snapshots')
     /\ Len(snapshots') <= Len(snapshots) + 1]_vars

C23_Witness ==
  /\ Len(snapshots) = 2
  /\ snapshots[1].post_id = snapshots[2].post_id
  /\ snapshots[1].clicks = 0
  /\ snapshots[2].clicks = 25
  /\ last.op = "collect_engagement_metrics"

\* C21: a performance request for a post the caller owns that has a snapshot
\* returns a snapshot of that post no other snapshot of the post is later
\* than; for a post that does not exist, is owned by another user or has no
\* snapshot it returns an error.
C21_LatestSnapshot ==
  last.op = "get_post_performance" =>
    LET p == last.draft_id
        res == last.result
        mine == {i \in DOMAIN snapshots : snapshots[i].post_id = p}
    IN IF p \in DOMAIN posts /\ posts[p].user_id = last.user_id /\ mine # {}
       THEN /\ "metrics" \in DOMAIN res
            /\ \E i \in mine : snapshots[i] = res.metrics
            /\ \A j \in mine : snapshots[j].collected_at <= res.metrics.collected_at
       ELSE DOMAIN res = {"error"}

C21_Witness ==
  /\ last.op = "get_post_performance"
  /\ "metrics" \in DOMAIN last.result
  /\ Len(snapshots) = 2
  /\ snapshots[1].post_id = last.draft_id
  /\ snapshots[2].post_id = last.draft_id
  /\ snapshots[1].collected_at < snapshots[2].collected_at
  /\ last.result.metrics = snapshots[2]
  /\ \E q \in DOMAIN posts : posts[q].user_id # last.user_id

\* C24: an insights request for a user none of whose posts published within
\* the window has a snapshot returns the no-data message, which carries no
\* average; every summary returned counts at least one post.
C24_NoDataNoDivision ==
  last.op = "get_performance_insights" =>
    LET res == last.result
        days == last.draft_id
        qualifying ==
          {p \in DOMAIN posts :
             /\ posts[p].user_id = last.user_id
             /\ posts[p].published_at >= now - days * MinutesPerDay
             /\ \E i \in DOMAIN snapshots : snapshots[i].post_id = p}
    IN /\ qualifying = {} => res = [message |-> "No performance data available"]
       /\ "summary" \in DOMAIN res => res.summary.total_posts >= 1

C24_Witness ==
  /\ last.op = "get_performance_insights"
  /\ last.draft_id = 7
  /\ "message" \in DOMAIN last.result
  /\ \E i \in DOMAIN snapshots :
       /\ posts[snapshots[i].post_id].user_id = last.user_id
       /\ posts[snapshots[i].post_id].published_at < now - 7 * MinutesPerDay

\* C29: for every report the engagement score lies in 0..100 points; it is
\* the sum of the counters weighted by what one comment, one share and one
\* like score at the same impressions, capped at 100, where a comment scores
\* at least a share and a share at least a like; ten times the impressions
\* give a tenth of an uncapped score, and no impressions count as one; the
\* score does not fall when likes, shares or comments rise.
C29_EngagementScore ==
  last.op = "_calculate_engagement_score" =>
    LET m == last.result.metrics
        sc == last.result.score
        cap == 100 * ScoreUnit
        One(field) ==
          _calculate_engagement_score(
            [NoMetrics EXCEPT ![field] = 1,
                              !.impression_count = m.impression_count])
        like == One("like_count")
        share == One("retweet_count")
        comment == One("reply_count")
    IN /\ 0 <= sc /\ sc <= cap
       /\ 0 <= like /\ like <= share /\ share <= comment
       /\ sc = Min(cap, (m.like_count * like) + (m.retweet_count * share)
                          + (m.reply_count * comment))
       /\ m.impression_count = 1000000
            => sc = 10 * _calculate_engagement_score(
                           [m EXCEPT !.impression_count = 10000000])
       /\ m.impression_count = 0
            => sc = _calculate_engagement_score([m EXCEPT !.impression_count = 1])
       /\ \A m2 \in PublicMetrics :
            (/\ m2.impression_count = m.impression_count
             /\ m2.like_count >= m.like_count
             /\ m2.retweet_count >= m.retweet_count
             /\ m2.reply_count >= m.reply_count)
              => _calculate_engagement_score(m2) >= sc

C29_Witness ==
  /\ last.op = "_calculate_engagement_score"
  /\ last.result.metrics.impression_count = 1000000
  /\ last.result.metrics.like_count = 2
  /\ last.result.metrics.reply_count = 1
  /\ last.result.score = 70

\* C30: end to end.  A pending twitter draft without keywords, whose owner
\* has connected twitter, scheduled with auto_optimize on a Tuesday at 22:00
\* is scheduled for Wednesday 09:30, with a timing score of at least 75 and
\* a publish task queued for that instant; the owner's listing for 7 days
\* then includes it; once that instant is reached the queue's delivery of
\* the task goes on to the platform call, and when the call succeeds a Post
\* with the id the client returned exists and the draft is published.
C30_EndToEnd ==
  [][\A d \in DOMAIN drafts, u \in Users :
       LET slot == DayStart(now) + MinutesPerDay + (9 * 60) + 30
           tuesday_22 == Weekday(now) = 1 /\ TimeOfDay(now) = 22 * 60
       IN /\ (/\ last'.op = "schedule_content"
              /\ tuesday_22
              /\ drafts[d].platform = "twitter"
              /\ drafts[d].status = "pending"
              /\ drafts[d].content \cap
                   (BreakingWords \cup MotivationalWords \cup EducationalWords) = {}
              /\ OwnedDraft(drafts, d, u)
              /\ HasIntegration(connected, u, "twitter")
              /\ \E t \in {None, now + 1} : Schedule(d, u, t, TRUE, TRUE))
               => /\ last'.result = "success"
                  /\ drafts'[d].status = "scheduled"
                  /\ drafts'[d].scheduled_for = slot
                  /\ Weekday(slot) = 2 /\ TimeOfDay(slot) = (9 * 60) + 30
                  /\ _calculate_timing_score(slot, "twitter") >= 75
                  /\ tasks' = Append(tasks, PublishTask(d, slot))
          /\ (/\ last.op = "schedule_content"
              /\ last.result = "success"
              /\ last.draft_id = d
              /\ last.user_id = u
              /\ tuesday_22
              /\ last'.op = "get_scheduled_content"
              /\ ListScheduled(u, 7))
               => \E i \in DOMAIN last'.result :
                    /\ last'.result[i].id = d
                    /\ last'.result[i].scheduled_for = drafts[d].scheduled_for
          /\ \A i \in DOMAIN tasks :
               (/\ last'.op = "schedule_publish_content"
                /\ tasks[i] = PublishTask(d, drafts[d].scheduled_for)
                /\ drafts[d].status = "scheduled"
                /\ now >= drafts[d].scheduled_for
                /\ DeliverPublish(i))
                 => /\ last'.result = "in_progress"
                    /\ inflight'[d] = inflight[d] + 1
          /\ \A b \in BOOLEAN :
               (/\ last'.op = "publish_content"
                /\ drafts[d].platform = "twitter"
                /\ PublishFinish(d, "created", b))
                 => /\ tweets'[d] = tweets[d] + 1
                    /\ Len(posts') = Len(posts) + 1
                    /\ posts'[Len(posts')].draft_id = d
                    /\ posts'[Len(posts')].external_id = <<"twitter", tweets'[d]>>
                    /\ IsPrefix(posts, posts')
                    /\ drafts'[d].status = "published"]_vars

C30_Witness ==
  /\ now = StartTime + 690
  /\ Weekday(StartTime) = 1 /\ TimeOfDay(StartTime) = 22 * 60
  /\ last.op = "publish_content"
  /\ last.result = "success"
  /\ Len(drafts) = 1 /\ drafts[1].status = "published"
  /\ drafts[1].platform = "twitter"
  /\ drafts[1].scheduled_for = now
  /\ tasks[1] = PublishTask(1, now)
  /\ Len(posts) = 1
  /\ posts[1].draft_id = 1
  /\ posts[1].external_id = <<"twitter", 1>>
  /\ posts[1].published_at = now

\* C31: whenever a metrics task of a post is in the queue, the post exists,
\* its draft is published, and the task is due no earlier than
\* MetricsCountdown after the post's published_at.
C31_MetricsAfterPublish ==
  \A i \in DOMAIN tasks :
    tasks[i].name = "schedule_engagement_tracking"
      => /\ tasks[i].arg \in DOMAIN posts
         /\ drafts[posts[tasks[i].arg].draft_id].status = "published"
         /\ tasks[i].eta >= posts[tasks[i].arg].published_at + MetricsCountdown

\* The external_id attribute of the draft object a handler holds when it
\* returns, as a set: empty when the handler did not set it.  schedule_content
\* stores the queued task's id in it, publish_content the platform's id; the
\* drafts table has no such column, so no later handler reads it back.
DraftExternalId(l, ps, ts) ==
  IF l.op = "schedule_content" /\ l.result = "success"
  THEN {<<"task", Len(ts)>>}
  ELSE IF l.op = "publish_content" /\ l.result \in {"success", "OperationalError"}
  THEN {ps[Len(ps)].external_id}
  ELSE {}

\* C32: the attribute of a draft that holds the reference to its queued
\* publish task is set only while the draft is scheduled: when a call on the
\* draft has returned success, a successful publish included, the attribute
\* is set only if the draft is scheduled.
C32_TaskRefOnlyWhileScheduled ==
  \A d \in DOMAIN drafts :
    (/\ last.draft_id = d
     /\ last.result = "success"
     /\ DraftExternalId(last, posts, tasks) # {})
      => drafts[d].status = "scheduled"

\* C33: every draft added by a generate call is pending, and an approve call
\* by the owner, with or without a schedule time, leaves the draft pending.
C33_GenerateApprovePending ==
  [][/\ \A d \in DOMAIN drafts' :
          d \notin DOMAIN drafts => drafts'[d].status = "pending"
     /\ \A d \in DOMAIN drafts, t \in {None, now + 1} :
          Approve(d, drafts[d].user_id, t) => drafts'[d].status = "pending"
    ]_vars

\* the posts of a user published within the window that have a snapshot
ReportedPostsOf(u, days) ==
  {p \in DOMAIN posts : /\ posts[p].user_id = u
                        /\ posts[p].published_at >= now - days * MinutesPerDay
                        /\ \E i \in DOMAIN snapshots : snapshots[i].post_id = p}

\* C34: the post count of an insights report is the number of distinct posts
\* of the user, published within the window, that have at least one
\* snapshot: a post with several snapshots counts once and a post of another
\* user does not count.
C34_InsightsCountsDistinctPosts ==
  (last.op = "get_performance_insights" /\ "summary" \in DOMAIN last.result)
    => last.result.summary.total_posts =
         Cardinality(ReportedPostsOf(last.user_id, last.draft_id))

\* C35: under fair delivery, a draft that is scheduled and due, whose owner's
\* platform is connected, and that nobody cancels, is published in the end:
\* a publish that failed with a platform error is attempted again.
C35_DueDraftPublished ==
  \A d \in DraftIds :
    (/\ d \in DOMAIN drafts
     /\ drafts[d].status = "scheduled"
     /\ drafts[d].scheduled_for <= now
     /\ HasIntegration(connected, drafts[d].user_id, drafts[d].platform))
      ~> (d \in DOMAIN drafts /\ drafts[d].status = "published")

\* C36: a publish task delivered by the queue before the draft's current
\* scheduled_for (a task queued for an earlier time, before the draft was
\* scheduled again for a later one) starts no platform call and changes no
\* draft and no post.
C36_NoPublishBeforeScheduledFor ==
  [][\A i \in DOMAIN tasks :
       (/\ last'.op = "schedule_publish_content"
        /\ DeliverPublish(i)
        /\ drafts[tasks[i].arg].status = "scheduled"
        /\ now < drafts[tasks[i].arg].scheduled_for)
        => (/\ last'.result # "in_progress"
            /\ UNCHANGED <<drafts, posts, tweets, inflight>>)
    ]_vars

\* C37: whenever a schedule call returns an error, a failure to queue the
\* publish task included, the drafts and the queue are as they were before
\* the call.
C37_ScheduleErrorChangesNothing ==
  [][(last'.op = "schedule_content" /\ last'.result # "success")
       => (drafts' = drafts /\ tasks' = tasks)]_vars

\* C38: every draft that is scheduled for a time still ahead has exactly one
\* publish task in the queue that is not yet due, and that task is due at
\* the draft's scheduled_for.
C38_ScheduledHasOneLiveTask ==
  \A d \in DOMAIN drafts :
    (drafts[d].status = "scheduled" /\ drafts[d].scheduled_for > now)
      => /\ Cardinality(LivePublishTasks(tasks, now, d)) = 1
         /\ \A i \in LivePublishTasks(tasks, now, d) :
              tasks[i].eta = drafts[d].scheduled_for

\* C39: a publish returns success if and only if it added a Post of the
\* draft and set the draft to published; whenever it returns an error, an
\* error of queueing the metrics task included, posts and drafts are as they
\* were before.
C39_PublishSuccessIffPost ==
  [][\A d \in DOMAIN drafts :
       /\ (last'.op = "publish_content" /\ last'.draft_id = d)
            => /\ last'.result = "success"
                    <=> (/\ Len(posts') = Len(posts) + 1
                         /\ posts'[Len(posts')].draft_id = d
                         /\ drafts'[d].status = "published")
               /\ last'.result # "success"
                    => (posts' = posts /\ drafts' = drafts)
       /\ (last'.op \in PublishOps /\ last'.draft_id = d
             /\ last'.result # "in_progress")
            => (posts' = posts /\ drafts' = drafts)
    ]_vars
====
